---- MODULE Spec2Model ----
(***************************************************************************)
(* The tourism_data schema (apps/tourism_data/models.py) as a state        *)
(* machine: five tables of rows, and the create / delete operations the    *)
(* ORM gives every model.  A create runs the constraints the model         *)
(* declares (NOT NULL, unique, unique_together, OneToOneField, foreign     *)
(* key) and either stores the row or raises IntegrityError and stores      *)
(* nothing; a delete runs the on_delete rule of every field that points    *)
(* at the deleted row.                                                     *)
(*                                                                         *)
(* A nullable column holds Null or {v}; a NOT NULL column holds v.         *)
(* A probability_score is kept in tenths (10 is 1.0).                      *)
(***************************************************************************)
EXTENDS Integers, FiniteSets, TLC

VARIABLES flights, cruises, weathers, summaries, predictions, nextId, last

vars == <<flights, cruises, weathers, summaries, predictions, nextId, last>>

(* ------------------------------ bounds --------------------------------- *)
(* How many rows each table is given before the creates stop; the ids are  *)
(* 1..Max, handed out in order and never reused.                           *)
MaxFlights == 2
MaxCruises == 2
MaxWeathers == 2
MaxSummaries == 2
MaxPredictions == 2
(* The weather rows of the three-table specification. *)
RelWeathers == 1

(* ----------------------- values the inputs take ------------------------ *)
Null == {}
Nullable(S) == {Null} \cup {{v} : v \in S}

Dates == {"2025-07-04", "2025-07-05"}
FlightNumbers == {"AA100", "B6200"}
ShipNames == {"Oasis", "Vista"}
LocationNames == {"Isla Verde", "Luquillo"}
DataSources == Nullable({"scraper"})
WeatherSources == Nullable({"NWS API", "Open-Meteo"})
PassengerEstimates == Nullable({150})
ModelVersions == Nullable({"v1", "v2"})
ProbabilityScores == {5, 15}
(* The inputs of the three-table specification: one location, one total,   *)
(* one score and one model version tell the rows of a table apart by their *)
(* dates and references alone.                                             *)
RelLocations == {"Isla Verde"}
RelSources == Nullable({"NWS API"})
RelTotals == {0}
RelScores == {5}
RelVersions == {{"v1"}}

Tables == {"FlightArrival", "CruiseArrival", "DailyWeather",
           "DailyTouristSummary", "BeachAttendancePrediction"}

(* ------------------------- storage-layer rules ------------------------- *)
(* Two column values match for a unique index only when neither is NULL:   *)
(* a NULL is distinct from every value, another NULL included.             *)
NullableEq(a, b) == a # Null /\ b # Null /\ a = b

(* unique_together = ('flight_number', 'scheduled_arrival_dt', 'data_source') *)
FlightArrivalUnique(rows, new) ==
    ~ \E r \in rows : /\ r.flight_number = new.flight_number
                      /\ r.scheduled_arrival_dt = new.scheduled_arrival_dt
                      /\ NullableEq(r.data_source, new.data_source)

(* unique_together = ('ship_name', 'scheduled_arrival_date', 'data_source') *)
CruiseArrivalUnique(rows, new) ==
    ~ \E r \in rows : /\ r.ship_name = new.ship_name
                      /\ r.scheduled_arrival_date = new.scheduled_arrival_date
                      /\ NullableEq(r.data_source, new.data_source)

(* unique_together = ('forecast_date', 'location_name', 'data_source') *)
DailyWeatherUnique(rows, new) ==
    ~ \E r \in rows : /\ r.forecast_date = new.forecast_date
                      /\ r.location_name = new.location_name
                      /\ NullableEq(r.data_source, new.data_source)

(* The creates of a table stop once it was given max rows. *)
Room(table, max) == nextId[table] <= max

Init ==
    /\ flights = {}
    /\ cruises = {}
    /\ weathers = {}
    /\ summaries = {}
    /\ predictions = {}
    /\ nextId = [t \in Tables |-> 1]
    /\ last = [op |-> "none", result |-> "none"]

(* --------------------------- FlightArrival ----------------------------- *)
FlightArrivalRow(id, fn, dt, est, src) ==
    [id |-> id, flight_number |-> fn, scheduled_arrival_dt |-> dt,
     estimated_passengers |-> est, data_source |-> src]

CreateFlightArrival(fn, dt, est, src) ==
    /\ LET new == FlightArrivalRow(nextId["FlightArrival"], fn, dt, est, src)
        IN  IF FlightArrivalUnique(flights, new)
            THEN /\ flights' = flights \cup {new}
                 /\ nextId' = [nextId EXCEPT !["FlightArrival"] = @ + 1]
                 /\ last' = [op |-> "CreateFlightArrival", row |-> new,
                             result |-> "ok"]
            ELSE /\ last' = [op |-> "CreateFlightArrival", row |-> new,
                             result |-> "IntegrityError"]
                 /\ UNCHANGED <<flights, nextId>>
    /\ UNCHANGED <<cruises, weathers, summaries, predictions>>

DeleteFlightArrival ==
    /\ \E r \in flights :
        /\ flights' = flights \ {r}
        /\ last' = [op |-> "DeleteFlightArrival", id |-> r.id, result |-> "ok"]
    /\ UNCHANGED <<cruises, weathers, summaries, predictions, nextId>>

NextFlight ==
    \/ /\ Room("FlightArrival", MaxFlights)
       /\ \E fn \in FlightNumbers, dt \in Dates, est \in PassengerEstimates,
             src \in DataSources : CreateFlightArrival(fn, dt, est, src)
    \/ DeleteFlightArrival

SpecFlight == Init /\ [][NextFlight]_vars

(* --------------------------- CruiseArrival ----------------------------- *)
CruiseArrivalRow(id, ship, date, est, src) ==
    [id |-> id, ship_name |-> ship, scheduled_arrival_date |-> date,
     estimated_passengers |-> est, data_source |-> src]

CreateCruiseArrival(ship, date, est, src) ==
    /\ LET new == CruiseArrivalRow(nextId["CruiseArrival"], ship, date, est, src)
        IN  IF CruiseArrivalUnique(cruises, new)
            THEN /\ cruises' = cruises \cup {new}
                 /\ nextId' = [nextId EXCEPT !["CruiseArrival"] = @ + 1]
                 /\ last' = [op |-> "CreateCruiseArrival", row |-> new,
                             result |-> "ok"]
            ELSE /\ last' = [op |-> "CreateCruiseArrival", row |-> new,
                             result |-> "IntegrityError"]
                 /\ UNCHANGED <<cruises, nextId>>
    /\ UNCHANGED <<flights, weathers, summaries, predictions>>

DeleteCruiseArrival ==
    /\ \E r \in cruises :
        /\ cruises' = cruises \ {r}
        /\ last' = [op |-> "DeleteCruiseArrival", id |-> r.id, result |-> "ok"]
    /\ UNCHANGED <<flights, weathers, summaries, predictions, nextId>>

NextCruise ==
    \/ /\ Room("CruiseArrival", MaxCruises)
       /\ \E ship \in ShipNames, date \in Dates, est \in PassengerEstimates,
             src \in DataSources : CreateCruiseArrival(ship, date, est, src)
    \/ DeleteCruiseArrival

SpecCruise == Init /\ [][NextCruise]_vars

(* ---------------------------- DailyWeather ----------------------------- *)
DailyWeatherRow(id, date, loc, src) ==
    [id |-> id, forecast_date |-> date, location_name |-> loc,
     data_source |-> src]

CreateDailyWeather(date, loc, src) ==
    /\ LET new == DailyWeatherRow(nextId["DailyWeather"], date, loc, src)
        IN  IF DailyWeatherUnique(weathers, new)
            THEN /\ weathers' = weathers \cup {new}
                 /\ nextId' = [nextId EXCEPT !["DailyWeather"] = @ + 1]
                 /\ last' = [op |-> "CreateDailyWeather", row |-> new,
                             result |-> "ok"]
            ELSE /\ last' = [op |-> "CreateDailyWeather", row |-> new,
                             result |-> "IntegrityError"]
                 /\ UNCHANGED <<weathers, nextId>>
    /\ UNCHANGED <<flights, cruises, summaries, predictions>>

(* The rule with the referring summaries deleted instead of kept. *)
OnDeleteSetNullDeletes(rows, wid) ==
    {r \in rows : r.weather_summary_fk # {wid}}

(* on_delete=models.SET_NULL: every summary that points at the deleted     *)
(* weather row keeps all its columns but the reference, which becomes NULL *)
OnDeleteSetNull(rows, wid) ==
    {IF r.weather_summary_fk = {wid}
        THEN [r EXCEPT !.weather_summary_fk = Null]
        ELSE r : r \in rows}

DeleteDailyWeather ==
    /\ \E w \in weathers :
        /\ weathers' = weathers \ {w}
        /\ summaries' = OnDeleteSetNull(summaries, w.id)
        /\ last' = [op |-> "DeleteDailyWeather", id |-> w.id, result |-> "ok",
                    nulled |-> {s.id : s \in {r \in summaries :
                                    r.weather_summary_fk = {w.id}}}]
    /\ UNCHANGED <<flights, cruises, predictions, nextId>>

NextWeather ==
    \/ /\ Room("DailyWeather", MaxWeathers)
       /\ \E date \in Dates, loc \in LocationNames, src \in WeatherSources :
             CreateDailyWeather(date, loc, src)
    \/ DeleteDailyWeather

SpecWeather == Init /\ [][NextWeather]_vars

(* ------------------------- DailyTouristSummary ------------------------- *)
DailyTouristSummaryRow(id, date, total, fk) ==
    [id |-> id, summary_date |-> date,
     total_estimated_flight_passengers |-> total, weather_summary_fk |-> fk]

(* The column without unique=True. *)
SummaryDateNotUnique(rows, new) == TRUE

(* summary_date = models.DateField(unique=True) *)
SummaryDateUnique(rows, new) ==
    ~ \E r \in rows : r.summary_date = new.summary_date

(* A foreign key names a stored row of the target table, or is NULL. *)
ForeignKeyValid(fk, target) ==
    fk = Null \/ \E t \in target : fk = {t.id}

(* The reference as a plain ForeignKey. *)
WeatherFkNotUnique(rows, new) == TRUE

(* OneToOneField is a foreign key with unique=True: no stored row holds    *)
(* the same non-NULL reference.                                            *)
WeatherFkUnique(rows, new) ==
    ~ \E r \in rows : NullableEq(r.weather_summary_fk, new.weather_summary_fk)

CreateDailyTouristSummary(date, total, fk) ==
    /\ LET new == DailyTouristSummaryRow(nextId["DailyTouristSummary"],
                                          date, total, fk)
        IN  IF /\ SummaryDateUnique(summaries, new)
               /\ ForeignKeyValid(fk, weathers)
               /\ WeatherFkUnique(summaries, new)
            THEN /\ summaries' = summaries \cup {new}
                 /\ nextId' = [nextId EXCEPT !["DailyTouristSummary"] = @ + 1]
                 /\ last' = [op |-> "CreateDailyTouristSummary", row |-> new,
                             result |-> "ok"]
            ELSE /\ last' = [op |-> "CreateDailyTouristSummary", row |-> new,
                             result |-> "IntegrityError"]
                 /\ UNCHANGED <<summaries, nextId>>
    /\ UNCHANGED <<flights, cruises, weathers, predictions>>

(* The rule as DO_NOTHING: the referring predictions stay. *)
OnDeleteDoNothing(rows, sid) == rows

(* on_delete=models.CASCADE: every prediction that points at the deleted   *)
(* summary is deleted with it                                              *)
OnDeleteCascade(rows, sid) ==
    {r \in rows : r.tourist_summary_fk # {sid}}

DeleteDailyTouristSummary ==
    /\ \E s \in summaries :
        /\ summaries' = summaries \ {s}
        /\ predictions' = OnDeleteCascade(predictions, s.id)
        /\ last' = [op |-> "DeleteDailyTouristSummary", id |-> s.id,
                    result |-> "ok",
                    cascaded |-> {p.id : p \in {r \in predictions :
                                      r.tourist_summary_fk = {s.id}}}]
    /\ UNCHANGED <<flights, cruises, weathers, nextId>>

(* ---------------------- BeachAttendancePrediction ---------------------- *)
BeachAttendancePredictionRow(id, date, fk, score, version) ==
    [id |-> id, prediction_date |-> date, tourist_summary_fk |-> fk,
     probability_score |-> score, model_version |-> version]

(* unique_together = ('prediction_date', 'model_version') *)
BeachAttendancePredictionUnique(rows, new) ==
    ~ \E r \in rows : /\ r.prediction_date = new.prediction_date
                      /\ NullableEq(r.model_version, new.model_version)

SummaryFkUnique(rows, new) ==
    ~ \E r \in rows : NullableEq(r.tourist_summary_fk, new.tourist_summary_fk)

(* probability_score = models.FloatField(): any float is a valid column    *)
(* value, the field declares no validators                                 *)
ProbabilityScoreValid(score) == score \in Int

CreateBeachAttendancePrediction(date, fk, score, version) ==
    /\ LET new == BeachAttendancePredictionRow(
                       nextId["BeachAttendancePrediction"],
                       date, fk, score, version)
        IN  IF /\ fk # Null
               /\ ForeignKeyValid(fk, summaries)
               /\ SummaryFkUnique(predictions, new)
               /\ BeachAttendancePredictionUnique(predictions, new)
               /\ ProbabilityScoreValid(score)
            THEN /\ predictions' = predictions \cup {new}
                 /\ nextId' = [nextId EXCEPT
                                 !["BeachAttendancePrediction"] = @ + 1]
                 /\ last' = [op |-> "CreateBeachAttendancePrediction",
                             row |-> new, result |-> "ok"]
            ELSE /\ last' = [op |-> "CreateBeachAttendancePrediction",
                             row |-> new, result |-> "IntegrityError"]
                 /\ UNCHANGED <<predictions, nextId>>
    /\ UNCHANGED <<flights, cruises, weathers, summaries>>

DeleteBeachAttendancePrediction ==
    /\ \E p \in predictions :
        /\ predictions' = predictions \ {p}
        /\ last' = [op |-> "DeleteBeachAttendancePrediction", id |-> p.id,
                    result |-> "ok"]
    /\ UNCHANGED <<flights, cruises, weathers, summaries, nextId>>

(* Summaries and their predictions, with the model versions and scores a   *)
(* prediction job can submit.                                              *)
NextPrediction ==
    \/ /\ Room("DailyTouristSummary", MaxSummaries)
       /\ \E date \in Dates, total \in RelTotals :
             CreateDailyTouristSummary(date, total, Null)
    \/ DeleteDailyTouristSummary
    \/ /\ Room("BeachAttendancePrediction", MaxPredictions)
       /\ \E date \in Dates, fk \in Nullable(1..MaxSummaries),
             score \in ProbabilityScores, version \in ModelVersions :
             CreateBeachAttendancePrediction(date, fk, score, version)
    \/ DeleteBeachAttendancePrediction

SpecPrediction == Init /\ [][NextPrediction]_vars

(* The three related tables together. *)
Next ==
    \/ /\ Room("DailyWeather", RelWeathers)
       /\ \E date \in Dates, loc \in RelLocations, src \in RelSources :
             CreateDailyWeather(date, loc, src)
    \/ DeleteDailyWeather
    \/ /\ Room("DailyTouristSummary", MaxSummaries)
       /\ \E date \in Dates, total \in RelTotals,
             fk \in Nullable(1..RelWeathers) :
             CreateDailyTouristSummary(date, total, fk)
    \/ DeleteDailyTouristSummary
    \/ /\ Room("BeachAttendancePrediction", MaxPredictions)
       /\ \E date \in Dates, fk \in Nullable(1..MaxSummaries),
             score \in RelScores, version \in RelVersions :
             CreateBeachAttendancePrediction(date, fk, score, version)
    \/ DeleteBeachAttendancePrediction

Spec == Init /\ [][Next]_vars

(* ------------------------------ properties ----------------------------- *)
Rejected(op) == last.op = op /\ last.result = "IntegrityError"
Accepted(op) == last.op = op /\ last.result = "ok"

(* C1: no two stored FlightArrival rows agree on flight_number,            *)
(* scheduled_arrival_dt and data_source, an absent data_source included.   *)
C1_FlightArrivalUnique ==
    \A a, b \in flights :
        ( /\ a.flight_number = b.flight_number
          /\ a.scheduled_arrival_dt = b.scheduled_arrival_dt
          /\ a.data_source = b.data_source ) => a = b

(* C7: no two stored CruiseArrival rows agree on ship_name,                *)
(* scheduled_arrival_date and data_source, an absent data_source included. *)
C7_CruiseArrivalUnique ==
    \A a, b \in cruises :
        ( /\ a.ship_name = b.ship_name
          /\ a.scheduled_arrival_date = b.scheduled_arrival_date
          /\ a.data_source = b.data_source ) => a = b

(* C6: one forecast per location per source per day: no two stored         *)
(* DailyWeather rows agree on forecast_date, location_name and             *)
(* data_source, an absent data_source included.                            *)
C6_DailyWeatherUnique ==
    \A a, b \in weathers :
        ( /\ a.forecast_date = b.forecast_date
          /\ a.location_name = b.location_name
          /\ a.data_source = b.data_source ) => a = b

(* C5: no two stored BeachAttendancePrediction rows agree on               *)
(* prediction_date and model_version, an absent model_version included.    *)
C5_PredictionUnique ==
    \A a, b \in predictions :
        ( /\ a.prediction_date = b.prediction_date
          /\ a.model_version = b.model_version ) => a = b

(* C8: with a prediction for date d and version v1 stored, the create of a *)
(* prediction for d with another version v2, linked to the summary of day  *)
(* d, is accepted.                                                         *)
C8_SecondVersionAccepted ==
    ( /\ last.op = "CreateBeachAttendancePrediction"
      /\ last.row.model_version # Null
      /\ \E s \in summaries :
            /\ s.summary_date = last.row.prediction_date
            /\ last.row.tourist_summary_fk = {s.id}
      /\ \E p \in predictions :
            /\ p.id # last.row.id
            /\ p.prediction_date = last.row.prediction_date
            /\ p.model_version # Null
            /\ p.model_version # last.row.model_version )
    => last.result = "ok"

(* C9: the probability_score of every stored prediction lies between 0.0   *)
(* and 1.0 inclusive (0 and 10 tenths).                                    *)
C9_ScoreInRange ==
    \A p \in predictions :
        p.probability_score >= 0 /\ p.probability_score <= 10

(* C2: every stored prediction references exactly one stored summary, and  *)
(* the delete of a summary deletes the prediction that references it in    *)
(* the same step.                                                          *)
C2_CascadeKeepsReferences ==
    /\ [](\A p \in predictions :
            Cardinality({s \in summaries :
                            p.tourist_summary_fk = {s.id}}) = 1)
    /\ [][\A s \in summaries :
            (\A t \in summaries' : t.id # s.id) =>
                \A p \in predictions :
                    p.tourist_summary_fk = {s.id} => p \notin predictions']_vars

(* A summary was just deleted, its prediction went with it, and another    *)
(* prediction, with its summary, is still stored.                          *)
C2_Witness ==
    /\ Accepted("DeleteDailyTouristSummary")
    /\ last.cascaded # {}
    /\ predictions # {}

(* C3: the delete of a weather row nulls the reference of the summary that *)
(* pointed at it, keeps every summary with its other columns and keeps     *)
(* every prediction; a summary's reference is null or names one stored     *)
(* weather row.                                                            *)
C3_SetNullKeepsSummary ==
    /\ [](\A s \in summaries :
            \/ s.weather_summary_fk = Null
            \/ Cardinality({w \in weathers :
                               s.weather_summary_fk = {w.id}}) = 1)
    /\ [][\A w \in weathers \ weathers' :
            /\ predictions' = predictions
            /\ Cardinality(summaries') = Cardinality(summaries)
            /\ \A s \in summaries : \E t \in summaries' :
                /\ t.id = s.id
                /\ t.summary_date = s.summary_date
                /\ t.total_estimated_flight_passengers
                       = s.total_estimated_flight_passengers
                /\ t.weather_summary_fk =
                       IF s.weather_summary_fk = {w.id}
                       THEN Null ELSE s.weather_summary_fk]_vars

(* A weather row was just deleted, the summary that pointed at it is       *)
(* stored with a null reference, and its prediction is stored.             *)
C3_Witness ==
    /\ Accepted("DeleteDailyWeather")
    /\ \E s \in summaries :
        /\ s.id \in last.nulled
        /\ s.weather_summary_fk = Null
        /\ \E p \in predictions : p.tourist_summary_fk = {s.id}

(* C4: no two stored summaries have the same summary_date, and the create  *)
(* of a summary whose date a stored summary has is rejected and stores     *)
(* nothing.                                                                *)
C4_SummaryDateUnique ==
    /\ [](\A a, b \in summaries : a.summary_date = b.summary_date => a = b)
    /\ [][( /\ last'.op = "CreateDailyTouristSummary"
            /\ \E s \in summaries : s.summary_date = last'.row.summary_date )
          => ( /\ last'.result = "IntegrityError"
               /\ summaries' = summaries )]_vars

(* A create was just rejected for its date alone: its reference is null    *)
(* and a stored summary has its date.                                      *)
C4_Witness ==
    /\ Rejected("CreateDailyTouristSummary")
    /\ last.row.weather_summary_fk = Null
    /\ \E s \in summaries : s.summary_date = last.row.summary_date

====
